---- MODULE Spec2Model ----
(***************************************************************************)
(* A model of the PDF annotation engine of server/src/utils/pdfAnnotator.ts *)
(* (annotatePDF, applyAnnotation, findTextPosition, the text helpers and    *)
(* the drawing functions they call), of the /api/annotate route that        *)
(* answers with its result, and of the client component (App) that sends   *)
(* the request and shows the preview.                                       *)
(*                                                                          *)
(* A text is a sequence of characters; a character is a one-character       *)
(* string, or the name of its code point for the typographic quotes and     *)
(* dashes ("U+2018", "U+2013", ...).  An optional value (undefined / null   *)
(* in the source) is the empty sequence when absent and a one-element       *)
(* sequence when present.  matchTolerance is held in percent, so that       *)
(* Math.floor(length * tolerance) is an integer division.                   *)
(***************************************************************************)
EXTENDS Integers, Sequences, FiniteSets, TLC

VARIABLES
    pages,                 \* extractedText.pages: the raw text of page i at index i
    pageSizes,             \* page.getSize() of page i at index i
    instructions,          \* request.instructions
    options,               \* DEFAULT_ANNOTATION_OPTIONS overridden by request.options
    pc,                    \* "loop" | "search" | "apply" | "done"
    cur,                   \* position of the for-loop of annotatePDF (1-based)
    searchText,            \* findTextPosition: searchText
    normalizedSearchText,  \* findTextPosition: normalizedSearchText
    pagesToSearch,         \* findTextPosition: page numbers of pagesToSearch
    pageIdx,               \* findTextPosition: position of the page loop (1-based)
    normalizedPageText,    \* findTextPosition: normalizedPageText of the last page examined
    attempts,              \* the strategy attempts made for the current instruction
    textPosition,          \* applyAnnotation: textPosition (absent = null)
    results,               \* annotatePDF: results
    warnings,              \* annotatePDF: warnings
    response,              \* the AnnotationResponse returned (absent until returned)
    drawn,                 \* the annotations drawn on the document, in order
    httpResponse,          \* the answer of POST /api/annotate (absent until sent)
    uploadedFile,          \* client (App): uploadedFile (absent = null)
    isLoading,             \* client: isLoading
    error,                 \* client: error (absent = null)
    annotatedPdfBlob,      \* client: annotatedPdfBlob, named by the submission it answers
    pdfPages,              \* client: pdfPages
    isRenderingPreview,    \* client: isRenderingPreview
    submitPc,              \* client: where handleSubmit stands: "idle" | "fetching" | "rendering"
    submitCount            \* client: the number of requests sent

vars == <<pages, pageSizes, instructions, options, pc, cur, searchText, normalizedSearchText,
          pagesToSearch, pageIdx, normalizedPageText, attempts, textPosition,
          results, warnings, response, drawn, httpResponse,
          uploadedFile, isLoading, error, annotatedPdfBlob, pdfPages, isRenderingPreview,
          submitPc, submitCount>>

\* The state of the server while it handles one request, and of the client.
serverVars == <<pages, pageSizes, instructions, options, pc, cur, searchText,
                normalizedSearchText, pagesToSearch, pageIdx, normalizedPageText, attempts,
                textPosition, results, warnings, response, drawn, httpResponse>>

clientVars == <<uploadedFile, isLoading, error, annotatedPdfBlob, pdfPages,
                isRenderingPreview, submitPc, submitCount>>

----------------------------------------------------------------------------
(* Characters and the string primitives of the runtime.                     *)

None == <<>>

Some(x) == <<x>>

\* The characters matched by \s (and removed by trim) that the model draws.
IsWhitespace(c) == c \in {" ", "\t", "\n", "\r"}

UpperCase ==
    <<"A", "B", "C", "D", "E", "F", "G", "H", "I", "J", "K", "L", "M",
      "N", "O", "P", "Q", "R", "S", "T", "U", "V", "W", "X", "Y", "Z">>

LowerCase ==
    <<"a", "b", "c", "d", "e", "f", "g", "h", "i", "j", "k", "l", "m",
      "n", "o", "p", "q", "r", "s", "t", "u", "v", "w", "x", "y", "z">>

\* String.prototype.toLowerCase on one character.
LowerChar(c) ==
    IF \E i \in 1..26 : UpperCase[i] = c
    THEN LowerCase[CHOOSE i \in 1..26 : UpperCase[i] = c]
    ELSE c

toLowerCase(s) == [i \in 1..Len(s) |-> LowerChar(s[i])]

\* s.substring(from, to), 0-based, to exclusive, both clamped to the length.
Substring(s, from, to) ==
    LET hi == IF to > Len(s) THEN Len(s) ELSE to
    IN  IF from >= hi THEN <<>> ELSE SubSeq(s, from + 1, hi)

\* pattern occurs in text at 0-based offset i.
MatchesAt(text, pattern, i) ==
    /\ i >= 0
    /\ i + Len(pattern) <= Len(text)
    /\ \A k \in 1..Len(pattern) : text[i + k] = pattern[k]

RECURSIVE IndexFromClipped(_, _, _)
\* A search that compares the pattern only as far as the text goes.
IndexFromClipped(text, pattern, i) ==
    IF i >= Len(text) THEN -1
    ELSE IF \A k \in 1..Len(pattern) : (i + k <= Len(text)) => text[i + k] = pattern[k] THEN i
    ELSE IndexFromClipped(text, pattern, i + 1)

RECURSIVE IndexWithin(_, _, _, _)
\* The leftmost offset in lo..hi at which pattern occurs in text, -1 when
\* there is none: the offsets are tried in ascending order.
IndexWithin(text, pattern, lo, hi) ==
    IF lo > hi THEN -1
    ELSE IF lo = hi THEN (IF MatchesAt(text, pattern, lo) THEN lo ELSE -1)
    ELSE CHOOSE index \in
             { IF left # -1 THEN left ELSE IndexWithin(text, pattern, mid + 1, hi) :
                 mid \in {(lo + hi) \div 2},
                 left \in {IndexWithin(text, pattern, lo, (lo + hi) \div 2)} } : TRUE

\* text.indexOf(pattern, i)
IndexFrom(text, pattern, i) == IndexWithin(text, pattern, i, Len(text) - Len(pattern))

\* text.indexOf(pattern): the leftmost offset, -1 when there is none.
indexOf(text, pattern) == IndexFrom(text, pattern, 0)

----------------------------------------------------------------------------
(* normalizeText                                                            *)

\* A replacement of each whitespace character by a space, runs not merged.
CollapseWhitespaceEach(s) == [i \in 1..Len(s) |-> IF IsWhitespace(s[i]) THEN " " ELSE s[i]]

RECURSIVE CollapseWithin(_, _, _)
\* What the replacement leaves of the characters lo..hi of s: a character
\* that is not whitespace stays, and a run of whitespace leaves one space,
\* written for its last character.
CollapseWithin(s, lo, hi) ==
    IF lo > hi THEN <<>>
    ELSE IF lo = hi
    THEN IF ~IsWhitespace(s[lo]) THEN <<s[lo]>>
         ELSE IF lo < Len(s) /\ IsWhitespace(s[lo + 1]) THEN <<>>
         ELSE <<" ">>
    ELSE CollapseWithin(s, lo, (lo + hi) \div 2) \o CollapseWithin(s, ((lo + hi) \div 2) + 1, hi)

\* .replace(/\s+/g, ' '): each maximal run of whitespace becomes one space.
CollapseWhitespace(s) == CollapseWithin(s, 1, Len(s))

\* A dash replacement that takes the em dash to the en dash and the en dash
\* to the hyphen.
ReplaceCharStepwise(c) ==
    IF c = "U+2014" THEN "U+2013"
    ELSE IF c = "U+2013" THEN "-"
    ELSE c

\* .replace(/['']/g, "'").replace(/[""]/g, '"').replace(/[--]/g, '-') on one
\* character. Both quote classes of the source hold the ASCII quote alone, so
\* they map it to itself; the dash class holds U+2013 and U+2014.
ReplaceChar(c) ==
    CASE c = "'" -> "'"
      [] c = "\"" -> "\""
      [] c \in {"U+2013", "U+2014"} -> "-"
      [] OTHER -> c

ReplacePunctuation(s) == [i \in 1..Len(s) |-> ReplaceChar(s[i])]

RECURSIVE TrimStart(_)
TrimStart(s) ==
    IF s # <<>> /\ IsWhitespace(Head(s)) THEN TrimStart(Tail(s)) ELSE s

RECURSIVE TrimEnd(_)
TrimEnd(s) ==
    IF s # <<>> /\ IsWhitespace(s[Len(s)])
    THEN TrimEnd(SubSeq(s, 1, Len(s) - 1))
    ELSE s

\* String.prototype.trim
Trim(s) == TrimEnd(TrimStart(s))

normalizeText(text) == Trim(ReplacePunctuation(CollapseWhitespace(text)))

----------------------------------------------------------------------------
(* levenshteinDistance and fuzzySearchWithNormalization                     *)

Min2(a, b) == IF a <= b THEN a ELSE b

Min3(a, b, c) == Min2(a, Min2(b, c))

\* The loops below carry their variables through bound identifiers (k, next,
\* ...) drawn from singleton sets, so that each is computed once per iteration.

RECURSIVE LevCells(_, _, _, _, _)
\* Row i of the matrix, filled left to right: row[j + 1] is matrix[i][j].
LevCells(prevRow, ch, str1, j, row) ==
    IF j > Len(str1) THEN row
    ELSE CHOOSE filled \in
             { LevCells(prevRow, ch, str1, k, next) :
                 k \in {j + 1},
                 next \in {Append(row, IF ch = str1[j]
                                       THEN prevRow[j]
                                       ELSE Min3(prevRow[j] + 1, row[j] + 1,
                                                 prevRow[j + 1] + 1))} } : TRUE

RECURSIVE LevRows(_, _, _, _)
LevRows(str1, str2, i, prevRow) ==
    IF i > Len(str2) THEN prevRow[Len(str1) + 1]
    ELSE CHOOSE distance \in
             { LevRows(str1, str2, k, row) :
                 k \in {i + 1},
                 row \in {LevCells(prevRow, str2[i], str1, 1, <<i>>)} } : TRUE

levenshteinDistance(str1, str2) ==
    LevRows(str1, str2, 1, [j \in 1..(Len(str1) + 1) |-> j - 1])

\* A comparison that also replaces the best match by a later window at the
\* same distance.
ImprovesOrTies(distance, bestMatch) ==
    bestMatch.index = -1 \/ distance <= bestMatch.distance

\* `distance < bestMatch.distance` against the initial distance Infinity.
Improves(distance, bestMatch) ==
    bestMatch.index = -1 \/ distance < bestMatch.distance

\* The last offset the scan loop of fuzzySearchWithNormalization visits:
\* i <= Math.min(text.length - pattern.length, maxSearchLength), with
\* maxSearchLength = Math.min(text.length, pattern.length * 100).
ScanLimit(text, pattern) ==
    Min2(Len(text) - Len(pattern), Min2(Len(text), Len(pattern) * 100))

\* A candidate test that lets one more edit through.
QualifiesWithinOneMore(distance, maxDistance) == distance <= maxDistance + 1

\* Whether the window at distance `distance` is taken as a candidate.
Qualifies(distance, maxDistance) == distance <= maxDistance

\* bestMatch after the window at offset i, of distance `distance`.
BestAfter(i, substring, distance, maxDistance, bestMatch) ==
    IF Qualifies(distance, maxDistance) /\ Improves(distance, bestMatch)
    THEN [index |-> i, distance |-> distance, matchedText |-> substring]
    ELSE bestMatch

\* One iteration of the scan loop, at offset i. The state of the loop is the
\* best match so far and whether the loop has returned.
ScanStep(text, pattern, maxDistance, i, loop) ==
    IF loop.returned THEN loop
    ELSE CHOOSE after \in
             { [bestMatch |-> BestAfter(i, Substring(text, i, i + Len(pattern)),
                                        distance, maxDistance, loop.bestMatch),
                returned |-> Qualifies(distance, maxDistance) /\ distance <= 2] :
                 distance \in {levenshteinDistance(
                                  Substring(text, i, i + Len(pattern)), pattern)} } : TRUE

RECURSIVE FuzzyScan(_, _, _, _, _, _)
\* The iterations of the scan loop at offsets lo..hi in order, from the loop
\* state `loop`; the iterations after an early return are skipped.
FuzzyScan(text, pattern, maxDistance, lo, hi, loop) ==
    IF lo > hi THEN loop
    ELSE IF lo = hi THEN ScanStep(text, pattern, maxDistance, lo, loop)
    ELSE CHOOSE after \in
             { FuzzyScan(text, pattern, maxDistance, mid + 1, hi, first) :
                 mid \in {(lo + hi) \div 2},
                 first \in {FuzzyScan(text, pattern, maxDistance, lo, (lo + hi) \div 2, loop)}
             } : TRUE

\* Math.ceil in place of Math.floor.
MaxDistanceRoundedUp(pattern, tolerance) == (Len(pattern) * tolerance + 99) \div 100

\* Math.floor(pattern.length * tolerance), tolerance in percent.
MaxDistance(pattern, tolerance) == (Len(pattern) * tolerance) \div 100

fuzzySearchWithNormalization(text, pattern, tolerance) ==
    FuzzyScan(text, pattern, MaxDistance(pattern, tolerance), 0, ScanLimit(text, pattern),
              [bestMatch |-> [index |-> -1, distance |-> -1, matchedText |-> <<>>],
               returned |-> FALSE]).bestMatch

\* The number of windows the scan loop evaluates: up to the window it
\* returns early on, or else every offset from 0 to the last one.
WindowsEvaluated(text, pattern, tolerance) ==
    LET found == fuzzySearchWithNormalization(text, pattern, tolerance)
    IN  IF ScanLimit(text, pattern) < 0 THEN 0
        ELSE IF found.index >= 0 /\ found.distance <= 2 THEN found.index + 1
        ELSE ScanLimit(text, pattern) + 1

----------------------------------------------------------------------------
(* findTextPosition: the strategies tried on one page.  The context c of a  *)
(* page holds pageNumber, pageText, normalizedPageText, searchText,         *)
(* normalizedSearchText and matchTolerance.  Each step yields the attempts  *)
(* made from that strategy on, in the order made; the chain returns at the  *)
(* first hit, so a hit is always the last attempt.                          *)

Attempt(c, strategy, index, matchedText, distance) ==
    [page |-> c.pageNumber, strategy |-> strategy, hit |-> (index # -1),
     index |-> index, matchedText |-> matchedText, distance |-> distance]

\* Fallback: pageText.indexOf(searchText), without normalization.
RawFallbackStep(c) ==
    <<Attempt(c, "RawFallback", indexOf(c.pageText, c.searchText), c.searchText, -1)>>

\* Strategy 4: fuzzy matching, only when matchTolerance > 0.
FuzzyStep(c) ==
    IF c.matchTolerance > 0
    THEN LET fuzzyResult == fuzzySearchWithNormalization(
                                c.normalizedPageText, c.normalizedSearchText, c.matchTolerance)
             tried == Attempt(c, "Fuzzy", fuzzyResult.index, fuzzyResult.matchedText,
                              fuzzyResult.distance)
         IN  IF fuzzyResult.index # -1 THEN <<tried>> ELSE <<tried>> \o RawFallbackStep(c)
    ELSE RawFallbackStep(c)

\* Strategy 3: the first 30 characters, only for a pattern longer than 30.
Partial30Step(c) ==
    IF Len(c.normalizedSearchText) > 30
    THEN LET partialSearch30 == Substring(c.normalizedSearchText, 0, 30)
             index == indexOf(c.normalizedPageText, partialSearch30)
             tried == Attempt(c, "Partial30", index, partialSearch30, -1)
         IN  IF index # -1 THEN <<tried>> ELSE <<tried>> \o FuzzyStep(c)
    ELSE FuzzyStep(c)

\* Strategy 2 guarded by the threshold of strategy 3.
Partial50StepAbove30(c) ==
    IF Len(c.normalizedSearchText) > 30
    THEN LET partialSearch50 == Substring(c.normalizedSearchText, 0, 50)
             index == indexOf(c.normalizedPageText, partialSearch50)
             tried == Attempt(c, "Partial50", index, partialSearch50, -1)
         IN  IF index # -1 THEN <<tried>> ELSE <<tried>> \o Partial30Step(c)
    ELSE Partial30Step(c)

\* Strategy 2 reporting the whole pattern as the matched text.
Partial50StepWholePattern(c) ==
    IF Len(c.normalizedSearchText) > 50
    THEN LET partialSearch50 == Substring(c.normalizedSearchText, 0, 50)
             index == indexOf(c.normalizedPageText, partialSearch50)
             tried == Attempt(c, "Partial50", index, c.normalizedSearchText, -1)
         IN  IF index # -1 THEN <<tried>> ELSE <<tried>> \o Partial30Step(c)
    ELSE Partial30Step(c)

\* Strategy 2: the first 50 characters, only for a pattern longer than 50.
Partial50Step(c) ==
    IF Len(c.normalizedSearchText) > 50
    THEN LET partialSearch50 == Substring(c.normalizedSearchText, 0, 50)
             index == indexOf(c.normalizedPageText, partialSearch50)
             tried == Attempt(c, "Partial50", index, partialSearch50, -1)
         IN  IF index # -1 THEN <<tried>> ELSE <<tried>> \o Partial30Step(c)
    ELSE Partial30Step(c)

\* Strategy 1 without the return at a hit.
ExactStepNoReturn(c) ==
    LET index == indexOf(c.normalizedPageText, c.normalizedSearchText)
        tried == Attempt(c, "Exact", index, c.normalizedSearchText, -1)
    IN  <<tried>> \o Partial50Step(c)

\* Strategy 1 searching the normalized pattern in the page text as extracted.
ExactStepOnRawPage(c) ==
    LET index == indexOf(c.pageText, c.normalizedSearchText)
        tried == Attempt(c, "Exact", index, c.normalizedSearchText, -1)
    IN  IF index # -1 THEN <<tried>> ELSE <<tried>> \o Partial50Step(c)

\* Strategy 1: exact match on the normalized texts.
ExactStep(c) ==
    LET index == indexOf(c.normalizedPageText, c.normalizedSearchText)
        tried == Attempt(c, "Exact", index, c.normalizedSearchText, -1)
    IN  IF index # -1 THEN <<tried>> ELSE <<tried>> \o Partial50Step(c)

\* A comparison that never folds case.
FoldCaseNever(instruction, text) == text

\* searchText / pageText: case-folded unless the instruction is case-sensitive.
FoldCase(instruction, text) ==
    IF instruction.caseSensitive THEN text ELSE toLowerCase(text)

\* JavaScript truthiness of the optional instruction.pageNumber.
HasPageNumber(instruction) ==
    instruction.pageNumber # None /\ instruction.pageNumber[1] # 0

\* pagesToSearch without the filter on instruction.pageNumber.
PagesToSearchAll(instruction) == [i \in 1..Len(pages) |-> i]

\* pagesToSearch, as page numbers in document order.
PagesToSearch(instruction) ==
    IF HasPageNumber(instruction)
    THEN SelectSeq([i \in 1..Len(pages) |-> i], LAMBDA p : p = instruction.pageNumber[1])
    ELSE [i \in 1..Len(pages) |-> i]

\* The texts findTextPosition compares on one page of the document.
PageContext(instruction, pageNumber) ==
    LET pageText == FoldCase(instruction, pages[pageNumber])
        folded == FoldCase(instruction, instruction.text)
    IN  [pageNumber |-> pageNumber,
         pageText |-> pageText,
         normalizedPageText |-> normalizeText(pageText),
         searchText |-> folded,
         normalizedSearchText |-> normalizeText(folded),
         matchTolerance |-> options.matchTolerance]

createTextPosition(pageNumber, originalText, charIndex, matchedText) ==
    [pageNumber |-> pageNumber,
     text |-> originalText,
     x |-> 50,
     y |-> 700 - ((charIndex \div 100) * 20),
     width |-> Len(matchedText) * 6,
     height |-> 12]

----------------------------------------------------------------------------
(* applyAnnotation, after findTextPosition has returned.                    *)

AnnotationTypes == {"highlight", "underline", "comment"}

\* applyAnnotation without its null check: the page lookup raises on a null
\* position and the catch reports that error.
applyAnnotationNoNullCheck(instruction, position, tried) ==
    IF position = None \/ ~instruction.drawOk
    THEN [instruction |-> instruction, success |-> FALSE, matchedText |-> None,
          position |-> None, error |-> "error.message", attempts |-> tried]
    ELSE IF instruction.type \notin AnnotationTypes
    THEN [instruction |-> instruction, success |-> FALSE, matchedText |-> None,
          position |-> None, error |-> "Unknown annotation type", attempts |-> tried]
    ELSE [instruction |-> instruction, success |-> TRUE,
          matchedText |-> Some(position[1].text),
          position |-> position, error |-> "", attempts |-> tried]

\* The AnnotationResult of an instruction. drawOk abstracts the drawing
\* calls into pdf-lib: FALSE when they raise (a colour channel outside
\* [0, 1], a comment the embedded font cannot encode), which the catch of
\* applyAnnotation turns into a failed result.
applyAnnotation(instruction, position, tried) ==
    IF position = None
    THEN [instruction |-> instruction, success |-> FALSE, matchedText |-> None,
          position |-> None, error |-> "Text not found in document", attempts |-> tried]
    ELSE IF instruction.type \notin AnnotationTypes
    THEN [instruction |-> instruction, success |-> FALSE, matchedText |-> None,
          position |-> None, error |-> "Unknown annotation type", attempts |-> tried]
    ELSE IF ~instruction.drawOk
    THEN [instruction |-> instruction, success |-> FALSE, matchedText |-> None,
          position |-> None, error |-> "error.message", attempts |-> tried]
    ELSE [instruction |-> instruction, success |-> TRUE,
          matchedText |-> Some(position[1].text),
          position |-> position, error |-> "", attempts |-> tried]

\* The text drawComment is called with when the instruction carries none.
DefaultComment == <<"C", "o", "m", "m", "e", "n", "t">>

\* instruction.comment || 'Comment': an absent or empty comment is falsy.
CommentText(instruction) ==
    IF instruction.comment = None \/ instruction.comment[1] = <<>>
    THEN DefaultComment
    ELSE instruction.comment[1]

\* a || b on numbers: zero is falsy.
OrElse(a, b) == IF a = 0 THEN b ELSE a

\* drawHighlight: the rectangle it draws.
drawHighlight(position, pageHeight) ==
    LET x == OrElse(position.x, 50)
        y == OrElse(position.y, pageHeight - 100)
        width == OrElse(position.width, 100)
        height == OrElse(position.height, 12)
    IN  << [shape |-> "rectangle",
            x |-> x - 2,
            y |-> y - 2,
            width |-> width + 4,
            height |-> height + 4] >>

\* drawUnderline: the line it draws.
drawUnderline(position, pageHeight) ==
    LET x == OrElse(position.x, 50)
        y == OrElse(position.y, pageHeight - 100)
        width == OrElse(position.width, 100)
    IN  << [shape |-> "line", x1 |-> x, y1 |-> y - 2, x2 |-> x + width, y2 |-> y - 2] >>

\* The advance widths of Helvetica, in thousandths of the font size.
GlyphWidth(c) ==
    CASE c = " " -> 278
      [] c \in {"i", "l"} -> 222
      [] c = "t" -> 278
      [] c \in {"c", "k", "s"} -> 500
      [] c \in {"a", "e", "h", "n", "o"} -> 556
      [] c = "m" -> 833
      [] c = "C" -> 722
      [] c = "W" -> 944
      [] OTHER -> 556

RECURSIVE GlyphWidths(_, _, _)
\* The sum of the advance widths of the characters lo..hi of text.
GlyphWidths(text, lo, hi) ==
    IF lo > hi THEN 0
    ELSE IF lo = hi THEN GlyphWidth(text[lo])
    ELSE GlyphWidths(text, lo, (lo + hi) \div 2) + GlyphWidths(text, ((lo + hi) \div 2) + 1, hi)

\* font.widthOfTextAtSize(text, size), in thousandths of a point.
widthOfTextAtSize(text, size) == GlyphWidths(text, 1, Len(text)) * size

commentWidth == 140
commentHeight == 60
fontSize == 8

\* comment.split(' ')
RECURSIVE Split(_)
Split(text) ==
    LET spaces == {k \in 1..Len(text) : text[k] = " "}
    IN  IF spaces = {}
        THEN <<text>>
        ELSE LET k == CHOOSE j \in spaces : \A h \in spaces : j <= h
             IN  <<SubSeq(text, 1, k - 1)>> \o Split(SubSeq(text, k + 1, Len(text)))

\* One iteration of the wrapping loop of drawComment: the word joins the
\* current line when the line stays narrower than the box less its padding.
FitsOnLine(testLine) == widthOfTextAtSize(testLine, fontSize) < (commentWidth - 10) * 1000

\* The wrapping loop of drawComment from word k on.
RECURSIVE WrapWords(_, _, _, _)
WrapWords(words, k, currentLine, lines) ==
    IF k > Len(words)
    THEN IF currentLine # <<>> THEN Append(lines, currentLine) ELSE lines
    ELSE LET word == words[k]
             testLine == IF currentLine # <<>> THEN currentLine \o <<" ">> \o word ELSE word
         IN  IF FitsOnLine(testLine)
             THEN WrapWords(words, k + 1, testLine, lines)
             ELSE WrapWords(words, k + 1, word,
                            IF currentLine # <<>> THEN Append(lines, currentLine) ELSE lines)

\* drawComment: the box, the connector and the text lines it draws.
drawComment(position, comment, pageWidth, pageHeight) ==
    LET x == OrElse(position.x, 50)
        y == OrElse(position.y, pageHeight - 100)
        commentX == pageWidth - 150
        commentY == y
        lines == WrapWords(Split(comment), 1, <<>>, <<>>)
        maxLines == Min2(Len(lines), 5)
    IN  << [shape |-> "rectangle",
            x |-> commentX,
            y |-> commentY - commentHeight,
            width |-> commentWidth,
            height |-> commentHeight],
           [shape |-> "line",
            x1 |-> x + OrElse(position.width, 100),
            y1 |-> y + 6,
            x2 |-> commentX,
            y2 |-> commentY - (commentHeight \div 2)] >>
        \o [i \in 1..maxLines |->
               [shape |-> "text",
                text |-> lines[i],
                x |-> commentX + 5,
                y |-> commentY - commentHeight + 45 - ((i - 1) * 10)]]

\* The switch of applyAnnotation over instruction.type.
DrawShapes(instruction, position, size) ==
    CASE instruction.type = "highlight" -> drawHighlight(position, size.height)
      [] instruction.type = "underline" -> drawUnderline(position, size.height)
      [] instruction.type = "comment" ->
            drawComment(position, CommentText(instruction), size.width, size.height)
      [] OTHER -> <<>>

\* The document after applyAnnotation: a successful instruction has drawn its
\* highlight, underline or comment callout at the position found.
DrawAnnotation(ds, instruction, result) ==
    IF result.success
    THEN Append(ds, [type |-> instruction.type,
                     pageNumber |-> result.position[1].pageNumber,
                     position |-> result.position[1],
                     comment |-> IF instruction.type = "comment"
                                 THEN Some(CommentText(instruction))
                                 ELSE None,
                     shapes |-> DrawShapes(instruction, result.position[1],
                                           pageSizes[result.position[1].pageNumber])])
    ELSE ds

\* A loop that keeps only the results of the instructions that succeeded.
PushResultDroppingFailures(rs, result) ==
    IF result.success THEN Append(rs, result) ELSE rs

\* results.push(result)
PushResult(rs, result) == Append(rs, result)

\* warnings after the result of one instruction.
PushWarning(ws, result) ==
    IF ~result.success /\ options.logNotFound /\ ~options.skipNotFound
    THEN Append(ws, [type |-> result.instruction.type, text |-> result.instruction.text,
                     error |-> result.error])
    ELSE ws

----------------------------------------------------------------------------
(* The actions.                                                             *)

\* annotatePDF takes the next instruction; applyAnnotation calls
\* findTextPosition, which computes the search text and the pages to search.
StartInstruction ==
    /\ pc = "loop"
    /\ cur <= Len(instructions)
    /\ LET instruction == instructions[cur]
           folded == FoldCase(instruction, instruction.text)
           toSearch == PagesToSearch(instruction)
       IN  /\ searchText' = folded
           /\ normalizedSearchText' = normalizeText(folded)
           /\ pagesToSearch' = toSearch
           /\ pageIdx' = 1
           /\ pc' = IF toSearch = <<>> THEN "apply" ELSE "search"
    /\ attempts' = <<>>
    /\ textPosition' = None
    /\ normalizedPageText' = <<>>
    /\ UNCHANGED <<pages, pageSizes, instructions, options, cur, results, warnings, response,
                   drawn, httpResponse>>
    /\ UNCHANGED clientVars

\* One iteration of the page loop of findTextPosition: the strategies in
\* order, a return at the first hit, and otherwise the break under
\* firstMatchOnly or the next page.
SearchPage ==
    /\ pc = "search"
    /\ LET instruction == instructions[cur]
           pageNumber == pagesToSearch[pageIdx]
           c == PageContext(instruction, pageNumber)
           tried == ExactStep(c)
           last == tried[Len(tried)]
       IN  /\ normalizedPageText' = c.normalizedPageText
           /\ attempts' = attempts \o tried
           /\ IF last.hit
              THEN /\ textPosition' = Some(createTextPosition(pageNumber, instruction.text,
                                                              last.index, last.matchedText))
                   /\ pc' = "apply"
                   /\ pageIdx' = pageIdx
              ELSE /\ textPosition' = None
                   /\ IF options.firstMatchOnly \/ pageIdx = Len(pagesToSearch)
                      THEN pc' = "apply" /\ pageIdx' = pageIdx
                      ELSE pc' = "search" /\ pageIdx' = pageIdx + 1
    /\ UNCHANGED <<pages, pageSizes, instructions, options, cur, searchText,
                   normalizedSearchText, pagesToSearch, results, warnings, response, drawn,
                   httpResponse>>
    /\ UNCHANGED clientVars

\* The rest of applyAnnotation and of the loop body of annotatePDF: the
\* result is built, pushed, and a warning recorded.
ApplyAnnotation ==
    /\ pc = "apply"
    /\ LET result == applyAnnotation(instructions[cur], textPosition, attempts)
       IN  /\ results' = PushResult(results, result)
           /\ warnings' = PushWarning(warnings, result)
           /\ drawn' = DrawAnnotation(drawn, instructions[cur], result)
    /\ cur' = cur + 1
    /\ pc' = "loop"
    /\ UNCHANGED <<pages, pageSizes, instructions, options, searchText, normalizedSearchText,
                   pagesToSearch, pageIdx, normalizedPageText, attempts, textPosition,
                   response, httpResponse>>
    /\ UNCHANGED clientVars

\* A route that sends the document only when every instruction succeeded.
RouteAnswerAllOrNothing(result) ==
    IF \E k \in 1..Len(result.results) : ~result.results[k].success
    THEN [status |-> 500, contentType |-> "application/json", pdf |-> None,
          error |-> "Failed to annotate PDF"]
    ELSE [status |-> 200, contentType |-> "application/pdf", pdf |-> result.pdfBuffer,
          error |-> ""]

\* The end of the POST /api/annotate handler: the annotated document, or a
\* 500 when annotatePDF reports no success or returns no buffer.
RouteAnswer(result) ==
    IF ~result.success \/ result.pdfBuffer = None
    THEN [status |-> 500, contentType |-> "application/json", pdf |-> None,
          error |-> "Failed to annotate PDF"]
    ELSE [status |-> 200, contentType |-> "application/pdf", pdf |-> result.pdfBuffer,
          error |-> ""]

\* The AnnotationResponse annotatePDF returns after pdfDoc.save().
AnnotationResponse(rs, ws, ds) ==
    LET successCount == Cardinality({k \in 1..Len(rs) : rs[k].success})
    IN  [success |-> successCount > 0,
         results |-> rs,
         warnings |-> IF Len(ws) > 0 THEN Some(ws) ELSE None,
         pdfBuffer |-> Some(ds)]

\* The loop is over: the document is saved, the response returned, and the
\* route answers the client.
Save ==
    /\ pc = "loop"
    /\ cur > Len(instructions)
    /\ response' = Some(AnnotationResponse(results, warnings, drawn))
    /\ httpResponse' = Some(RouteAnswer(AnnotationResponse(results, warnings, drawn)))
    /\ pc' = "done"
    /\ UNCHANGED <<pages, pageSizes, instructions, options, cur, searchText,
                   normalizedSearchText, pagesToSearch, pageIdx, normalizedPageText,
                   attempts, textPosition, results, warnings, drawn>>
    /\ UNCHANGED clientVars

Next == StartInstruction \/ SearchPage \/ ApplyAnnotation \/ Save

----------------------------------------------------------------------------
(* Inputs.  A request is fixed when annotatePDF is called, so each          *)
(* specification draws the document, the instructions and the options in    *)
(* its initial state.  Page texts are as extractTextFromPDF leaves them:    *)
(* trimmed, at least one page.                                              *)

MaxInstr == 3      \* instructions in a request (Spec)
MaxPages == 4      \* pages in a document (SpecFind)
MaxText == 4       \* characters of a page text (SpecFuzzy)
MaxPattern == 3    \* characters of a pattern (SpecFuzzy)
MaxNormLen == 3    \* characters of a text to normalize (SpecNorm)
MaxWords == 2      \* words of a comment body (SpecDraw)
MaxSubmits == 3    \* requests the client sends (SpecClient)

\* All sequences over S of a length in lo..hi.
SeqsOf(S, lo, hi) == UNION {[1..k -> S] : k \in lo..hi}

DefaultOptions ==
    [matchTolerance |-> 10, firstMatchOnly |-> TRUE, skipNotFound |-> TRUE,
     logNotFound |-> TRUE]

Instruction(type, text, pageNumber, caseSensitive, comment, drawOk) ==
    [type |-> type, text |-> text, pageNumber |-> pageNumber,
     caseSensitive |-> caseSensitive, comment |-> comment, drawOk |-> drawOk]

Highlight(text, pageNumber, caseSensitive) ==
    Instruction("highlight", text, pageNumber, caseSensitive, None, TRUE)

\* The state annotatePDF starts from, for a document, a request and options.
LetterSize == [width |-> 612, height |-> 792]

StartOn(doc, sizes, request, opts) ==
    /\ pages = doc
    /\ pageSizes = sizes
    /\ instructions = request
    /\ options = opts
    /\ pc = "loop"
    /\ cur = 1
    /\ searchText = <<>>
    /\ normalizedSearchText = <<>>
    /\ pagesToSearch = <<>>
    /\ pageIdx = 1
    /\ normalizedPageText = <<>>
    /\ attempts = <<>>
    /\ textPosition = None
    /\ results = <<>>
    /\ warnings = <<>>
    /\ response = None
    /\ drawn = <<>>
    /\ httpResponse = None
    /\ uploadedFile = None
    /\ isLoading = FALSE
    /\ error = None
    /\ annotatedPdfBlob = None
    /\ pdfPages = <<>>
    /\ isRenderingPreview = FALSE
    /\ submitPc = "idle"
    /\ submitCount = 0

\* A document of US Letter pages.
Start(doc, request, opts) == StartOn(doc, [p \in 1..Len(doc) |-> LetterSize], request, opts)

IsTrimmed(t) == t = <<>> \/ (~IsWhitespace(t[1]) /\ ~IsWhitespace(t[Len(t)]))

(* Spec: requests of up to MaxInstr instructions on a document of one or    *)
(* two pages.                                                               *)

PageTotals == <<"t", "o", "t", "a", "l", "\n", "s", "u", "m">>

PageNotes == <<"N", "o", "t", "e", "s">>

RequestDocs == {<<PageTotals, PageNotes>>, <<PageTotals>>}

RequestInstructions ==
    { Highlight(<<"t", "o", "t", "a", "l", " ", "s", "u", "m">>, None, FALSE),
      Highlight(<<"p", "r", "o", "f", "i", "t">>, None, FALSE),
      Instruction("comment", <<"n", "o", "t", "e", "s">>, Some(2), FALSE,
                  Some(<<"c", "h", "e", "c", "k">>), TRUE),
      Instruction("comment", <<"s", "u", "m">>, None, FALSE, None, TRUE),
      Instruction("underline", <<"s", "u", "m">>, None, TRUE, None, FALSE),
      Instruction("strikeout", <<"t", "o", "t", "a", "l">>, None, FALSE, None, TRUE) }

RequestOptions ==
    { DefaultOptions,
      [DefaultOptions EXCEPT !.skipNotFound = FALSE],
      [DefaultOptions EXCEPT !.skipNotFound = FALSE, !.logNotFound = FALSE],
      [DefaultOptions EXCEPT !.firstMatchOnly = FALSE, !.matchTolerance = 0] }

Init ==
    \E doc \in RequestDocs, request \in SeqsOf(RequestInstructions, 0, MaxInstr),
       opts \in RequestOptions :
        Start(doc, request, opts)

Spec == Init /\ [][Next]_vars

(* SpecFind: one instruction on documents of up to MaxPages pages, with    *)
(* short texts on every page, and long texts (patterns of 40 and 60         *)
(* characters) on documents of one or two pages.                            *)

PageHit == <<"x", "A", " ", " ", "b">>

PageMiss == <<"q", "q", "q", "q">>

ShortPatterns ==
    { <<"a", " ", "b">>, <<"A", " ", "b">>, <<"a", " ", "c">>,
      <<" ", "A", "\n", " ", "B", "\t">> }

ShortScenarios ==
    [ doc : SeqsOf({PageHit, PageMiss}, 1, MaxPages),
      request : { <<Highlight(text, pageNumber, caseSensitive)>> :
                    text \in ShortPatterns,
                    pageNumber \in {None, Some(0), Some(2)},
                    caseSensitive \in BOOLEAN },
      opts : { [DefaultOptions EXCEPT !.matchTolerance = t, !.firstMatchOnly = f] :
                 t \in {0, 10, 50}, f \in BOOLEAN } ]

\* A text of 60 characters with no repeated stretch of 30.
Long60 ==
    [i \in 1..60 |-> IF i % 9 = 0 THEN " "
                     ELSE IF (i * i) % 11 < 4 THEN "a"
                     ELSE IF (i * i) % 7 < 3 THEN "b" ELSE "c"]

Long40 == SubSeq(Long60, 1, 40)

\* Pages holding: all of Long60; its first 52 characters; its first 35
\* characters.
PageLongFull == <<"x", "x">> \o Long60 \o <<"y">>

PageLong52 == <<"x">> \o SubSeq(Long60, 1, 52)

PageLong35 == <<"x", "x", "x">> \o SubSeq(Long60, 1, 35)

LongScenarios ==
    [ doc : SeqsOf({PageLongFull, PageLong52, PageLong35, PageMiss}, 1, 2),
      request : { <<Highlight(text, None, FALSE)>> : text \in {Long60, Long40} },
      opts : { [DefaultOptions EXCEPT !.matchTolerance = t, !.firstMatchOnly = f] :
                 t \in {0, 1, 10}, f \in BOOLEAN } ]

ImportantFindings ==
    <<"i", "m", "p", "o", "r", "t", "a", "n", "t", " ",
      "f", "i", "n", "d", "i", "n", "g", "s">>

ImportntFindngs ==
    <<"i", "m", "p", "o", "r", "t", "n", "t", " ", "f", "i", "n", "d", "n", "g", "s">>

\* The misspelled pattern at tolerance 0.2, on a page that holds the phrase
\* alone or inside a sentence.
MisspelledScenarios ==
    [ doc : { <<ImportantFindings>>,
              <<<<"T", "h", "e", " ">> \o ImportantFindings \o <<" ", "a", "r", "e">>>> },
      request : { <<Highlight(ImportntFindngs, None, FALSE)>> },
      opts : { [DefaultOptions EXCEPT !.matchTolerance = 20] } ]

PageSummary == <<"s", "u", "m", "m", "a", "r", "y">>

Sumnary == <<"s", "u", "m", "n", "a", "r", "y">>

\* A pattern of seven characters, one of them wrong, under the options of a
\* request that sets none.
DefaultToleranceScenarios ==
    [ doc : { <<PageSummary>> },
      request : { <<Highlight(Sumnary, None, FALSE)>> },
      opts : { DefaultOptions } ]

InitFind ==
    \E sc \in ShortScenarios \cup LongScenarios \cup MisspelledScenarios
                \cup DefaultToleranceScenarios :
        Start(sc.doc, sc.request, sc.opts)

SpecFind == InitFind /\ [][Next]_vars

(* SpecFuzzy: one instruction on a one-page document, every page text and  *)
(* pattern over two letters within the bounds, at four tolerances.          *)

FuzzyLetters == {"a", "b"}

FuzzyTolerances == {20, 34, 50, 100}

FuzzyScenarios ==
    [ doc : { <<text>> : text \in SeqsOf(FuzzyLetters, 1, MaxText) },
      request : { <<Highlight(text, None, TRUE)>> : text \in SeqsOf(FuzzyLetters, 1, MaxPattern) },
      opts : { [DefaultOptions EXCEPT !.matchTolerance = t] : t \in FuzzyTolerances } ]

\* A page longer than a hundred windows of a one-character pattern.
PageBeyondScanCap == [k \in 1..101 |-> "b"]

ScanCapScenarios ==
    [ doc : { <<PageBeyondScanCap>>, <<SubSeq(PageBeyondScanCap, 1, 100)>> },
      request : { <<Highlight(<<letter>>, None, TRUE)>> : letter \in FuzzyLetters },
      opts : { [DefaultOptions EXCEPT !.matchTolerance = t] : t \in FuzzyTolerances } ]

InitFuzzy ==
    \E sc \in FuzzyScenarios \cup ScanCapScenarios : Start(sc.doc, sc.request, sc.opts)

SpecFuzzy == InitFuzzy /\ [][Next]_vars

(* SpecNorm: texts with whitespace, dashes and a curly quote, as the page   *)
(* text (trimmed by the extraction) under a fixed pattern, and as the       *)
(* pattern on a fixed page.                                                 *)

NormCharacters == {"a", " ", "\n", "U+2013", "U+2014", "U+2018"}

PageDashes == <<"a", "\n", " ", "U+2014", "a">>

\* A page text in curly quotes and the same words in straight quotes.
PageCurlyQuotes == <<"U+201C", "i", "t", "U+2019", "s", "U+201D">>

StraightQuotes == <<"\"", "i", "t", "'", "s", "\"">>

NormScenarios ==
    [ doc : { <<text>> : text \in {t \in SeqsOf(NormCharacters, 1, MaxNormLen) : IsTrimmed(t)} },
      request : { <<Highlight(<<"a">>, None, FALSE)>> },
      opts : { DefaultOptions } ]
    \cup
    [ doc : { <<PageDashes>> },
      request : { <<Highlight(text, None, FALSE)>> : text \in SeqsOf(NormCharacters, 0, MaxNormLen) },
      opts : { DefaultOptions } ]
    \cup
    [ doc : { <<PageCurlyQuotes>> },
      request : { <<Highlight(StraightQuotes, None, FALSE)>> },
      opts : { DefaultOptions } ]

InitNorm == \E sc \in NormScenarios : Start(sc.doc, sc.request, sc.opts)

SpecNorm == InitNorm /\ [][Next]_vars

(* SpecDraw: one instruction of each annotation type, drawn on a document   *)
(* whose pages are US Letter or A5, with a comment of up to MaxWords words   *)
(* (or one of six) and a pattern that is present, empty or absent.           *)

A5Size == [width |-> 420, height |-> 595]

DrawSizes == {LetterSize, A5Size}

\* A short word, a word that fills more than half a line, and a word that
\* alone is wider than the callout.
OkWord == <<"o", "k">>
WideWord == [k \in 1..10 |-> "m"]
LongWord == [k \in 1..18 |-> "W"]

DrawWords == {OkWord, WideWord, LongWord}

\* The words joined by single spaces.
RECURSIVE JoinWords(_)
JoinWords(words) ==
    IF words = <<>> THEN <<>>
    ELSE IF Len(words) = 1 THEN words[1]
    ELSE words[1] \o <<" ">> \o JoinWords(Tail(words))

SixWideWords == JoinWords([k \in 1..6 |-> WideWord])

DrawComments ==
    {JoinWords(ws) : ws \in SeqsOf(DrawWords, 1, MaxWords)} \cup {SixWideWords}

DrawTexts == {<<"s", "u", "m">>, <<>>, <<"z", "z">>}

DrawInstructions ==
    {Instruction(type, text, None, FALSE, None, TRUE) :
        type \in {"highlight", "underline"}, text \in DrawTexts}
    \cup {Instruction("comment", text, None, FALSE, Some(comment), TRUE) :
             text \in DrawTexts \ {<<"z", "z">>}, comment \in DrawComments}

InitDraw ==
    \E doc \in RequestDocs, size \in DrawSizes, instruction \in DrawInstructions :
        StartOn(doc, [p \in 1..Len(doc) |-> size], <<instruction>>, DefaultOptions)

SpecDraw == InitDraw /\ [][Next]_vars

----------------------------------------------------------------------------
(* The client (App).  handleSubmit is asynchronous: the component renders   *)
(* its state at each await, so the handler is three steps, up to the fetch, *)
(* from the answer up to the rendering of the preview, and from there to    *)
(* its end.                                                                 *)

Files == [type : {"application/pdf", "image/png"}, sizeMB : {1, 5, 11}]

\* handleFileSelect, from the file input or from a drop on the upload area.
SelectFile ==
    /\ \E file \in Files :
          IF file.type # "application/pdf"
          THEN error' = Some("Please select a PDF file") /\ UNCHANGED uploadedFile
          ELSE IF file.sizeMB > 10
          THEN error' = Some("File size must be less than 10MB") /\ UNCHANGED uploadedFile
          ELSE uploadedFile' = Some(file) /\ error' = None
    /\ UNCHANGED <<isLoading, annotatedPdfBlob, pdfPages, isRenderingPreview, submitPc,
                   submitCount>>
    /\ UNCHANGED serverVars

\* handleSubmit up to the fetch; the submit button is disabled without a file
\* and while a request is loading.
Submit ==
    /\ uploadedFile # None
    /\ ~isLoading
    /\ submitPc = "idle"
    /\ submitCount < MaxSubmits
    /\ isLoading' = TRUE
    /\ error' = None
    /\ pdfPages' = <<>>
    /\ isRenderingPreview' = FALSE
    /\ submitPc' = "fetching"
    /\ submitCount' = submitCount + 1
    /\ UNCHANGED <<uploadedFile, annotatedPdfBlob>>
    /\ UNCHANGED serverVars

\* The fetch is over: on a failure or a status that is not ok the catch sets
\* the error and the handler ends; otherwise the blob is kept and
\* renderPdfPages starts.
FetchReturns ==
    /\ submitPc = "fetching"
    /\ \E ok \in BOOLEAN :
          IF ok
          THEN /\ annotatedPdfBlob' = Some(submitCount)
               /\ pdfPages' = <<>>
               /\ isRenderingPreview' = TRUE
               /\ submitPc' = "rendering"
               /\ UNCHANGED <<isLoading, error>>
          ELSE /\ error' = Some("HTTP error! status")
               /\ isLoading' = FALSE
               /\ submitPc' = "idle"
               /\ UNCHANGED <<annotatedPdfBlob, pdfPages, isRenderingPreview>>
    /\ UNCHANGED <<uploadedFile, submitCount>>
    /\ UNCHANGED serverVars

RenderErrors ==
    {"Invalid PDF: Empty file", "Invalid or corrupted PDF file",
     "Failed to render any pages from the PDF"}

\* renderPdfPages is over, with the images of one or two pages or with an
\* error, and handleSubmit ends.
RenderReturns ==
    /\ submitPc = "rendering"
    /\ \/ \E pageImages \in {<<"page 1">>, <<"page 1", "page 2">>} :
             pdfPages' = pageImages /\ UNCHANGED error
       \/ \E message \in RenderErrors :
             error' = Some(message) /\ pdfPages' = <<>>
    /\ isRenderingPreview' = FALSE
    /\ isLoading' = FALSE
    /\ submitPc' = "idle"
    /\ UNCHANGED <<uploadedFile, annotatedPdfBlob, submitCount>>
    /\ UNCHANGED serverVars

NextClient == SelectFile \/ Submit \/ FetchReturns \/ RenderReturns

\* The page as loaded: no file, no request, nothing to show.
InitClient == StartOn(<<>>, <<>>, <<>>, DefaultOptions)

SpecClient == InitClient /\ [][NextClient]_vars

----------------------------------------------------------------------------
(* Claims.                                                                  *)

\* Some strategy produced a candidate among the attempts `tried`.
HasCandidate(tried) == \E i \in 1..Len(tried) : tried[i].hit

ExampleRequest ==
    << Highlight(<<"t", "o", "t", "a", "l", " ", "s", "u", "m">>, None, FALSE),
       Highlight(<<"p", "r", "o", "f", "i", "t">>, None, FALSE),
       Instruction("comment", <<"n", "o", "t", "e", "s">>, Some(2), FALSE,
                   Some(<<"c", "h", "e", "c", "k">>), TRUE) >>

\* C2: annotatePDF returns exactly one result per instruction, in input
\* order, and a failed instruction never stops the ones after it: the loop
\* has pushed one result for each instruction it has passed, whatever their
\* outcome, it is never left without an instruction to finish, the response
\* holds a result for every instruction, and the request [findable highlight,
\* unfindable highlight, valid comment] yields [success, failure, success].
C2_OneResultPerInstruction ==
    /\ Len(results) = cur - 1
    /\ \A k \in 1..Len(results) : results[k].instruction = instructions[k]
    /\ pc \in {"search", "apply"} => cur <= Len(instructions)
    /\ pc = "done" =>
          /\ response # None
          /\ response[1].results = results
          /\ Len(results) = Len(instructions)
    /\ (pc = "done" /\ instructions = ExampleRequest /\ Len(pages) = 2 /\ pages[1] = PageTotals)
          => /\ results[1].success
             /\ ~results[2].success
             /\ results[3].success

\* C2 witness: the three-instruction example has been answered, its second
\* instruction failed and its third succeeded.
C2_Witness ==
    /\ pc = "done"
    /\ instructions = ExampleRequest
    /\ Len(response[1].results) = 3
    /\ ~response[1].results[2].success
    /\ response[1].results[3].success

\* C3 as stated: an instruction fails if and only if no strategy produced a
\* candidate on any page searched for it.
C3_FailureIffNoCandidate ==
    \A k \in 1..Len(results) : results[k].success <=> HasCandidate(results[k].attempts)

\* C3 amended: the result is the failure "Text not found in document" if and
\* only if no strategy produced a candidate on any page searched; when a
\* candidate was produced the result is successful unless the annotation
\* type is unknown or drawing raised an error, and then it is a failure with
\* another error.
C3_NotFoundIffNoCandidate ==
    \A k \in 1..Len(results) :
        LET r == results[k]
        IN  /\ (~r.success /\ r.error = "Text not found in document")
                  <=> ~HasCandidate(r.attempts)
            /\ r.success <=> /\ HasCandidate(r.attempts)
                             /\ r.instruction.type \in AnnotationTypes
                             /\ r.instruction.drawOk

\* C3 witness: one request with a not-found result after a full search of a
\* page, a successful result, and a failed result despite a candidate.
C3_Witness ==
    /\ \E k \in 1..Len(results) :
          /\ results[k].error = "Text not found in document"
          /\ Len(results[k].attempts) > 0
    /\ \E k \in 1..Len(results) : results[k].success
    /\ \E k \in 1..Len(results) :
          ~results[k].success /\ HasCandidate(results[k].attempts)

----------------------------------------------------------------------------
(* Claims about the search.  A search log is the sequence of attempts made  *)
(* for one instruction: that of a result, or that of the search under way.  *)

SearchLogs ==
    { [instruction |-> instructions[k], tried |-> results[k].attempts] :
        k \in 1..Len(results) }
    \cup (IF pc \in {"search", "apply"}
          THEN {[instruction |-> instructions[cur], tried |-> attempts]}
          ELSE {})

\* pattern lies in text at the 0-based offset i.
OccursAt(text, pattern, i) ==
    /\ i >= 0
    /\ i + Len(pattern) <= Len(text)
    /\ SubSeq(text, i + 1, i + Len(pattern)) = pattern

Occurs(text, pattern) == \E i \in 0..Len(text) : OccursAt(text, pattern, i)

\* i is the offset of the leftmost occurrence of pattern in text.
LeftmostAt(text, pattern, i) ==
    /\ OccursAt(text, pattern, i)
    /\ \A j \in 0..(i - 1) : ~OccursAt(text, pattern, j)

LeastOf(S) == CHOOSE p \in S : \A q \in S : p <= q

\* C1: with firstMatchOnly true and no page restriction the search stops at
\* the first page on which a strategy succeeds: when the strategies find the
\* pattern on some page of the document, the instruction succeeds and its
\* position is on the least such page (page 2 for a pattern on pages 2 and 4
\* and not on page 1).
C1_FirstMatchingPageReported ==
    \A k \in 1..Len(results) :
        LET instruction == instructions[k]
            matching == { p \in 1..Len(pages) :
                            HasCandidate(ExactStep(PageContext(instruction, p))) }
        IN  (options.firstMatchOnly /\ instruction.pageNumber = None /\ matching # {})
                => /\ results[k].success
                   /\ results[k].position # None
                   /\ results[k].position[1].pageNumber = LeastOf(matching)

StrategyOrder == <<"Exact", "Partial50", "Partial30", "Fuzzy", "RawFallback">>

Rank(strategy) == CHOOSE r \in 1..Len(StrategyOrder) : StrategyOrder[r] = strategy

PatternOf(log) == normalizeText(FoldCase(log.instruction, log.instruction.text))

\* The normalized text of the page of the i-th attempt of a search log.
PageTextOf(log, i) == normalizeText(FoldCase(log.instruction, pages[log.tried[i].page]))

\* C5: Partial50 is attempted only for a normalized pattern longer than 50
\* characters and Partial30 only for one longer than 30; each searches the
\* first 50 (30) characters of the pattern and hits at their leftmost
\* occurrence with a matched text of that length; after a miss of Exact with a
\* pattern longer than 50, Partial50 is the next attempt and hits exactly when
\* the first 50 characters occur in the page text; and the 60-character
\* pattern on a page holding only its first 52 characters is matched by
\* Partial50.
C5_PartialThresholds ==
    /\ \A log \in SearchLogs :
          \A i \in 1..Len(log.tried) :
              LET a == log.tried[i]
                  pattern == PatternOf(log)
                  text == PageTextOf(log, i)
              IN  /\ a.strategy = "Partial50" =>
                        /\ Len(pattern) > 50
                        /\ a.matchedText = SubSeq(pattern, 1, 50)
                        /\ a.hit => LeftmostAt(text, SubSeq(pattern, 1, 50), a.index)
                  /\ a.strategy = "Partial30" =>
                        /\ Len(pattern) > 30
                        /\ a.matchedText = SubSeq(pattern, 1, 30)
                        /\ a.hit => LeftmostAt(text, SubSeq(pattern, 1, 30), a.index)
                  /\ (a.strategy = "Exact" /\ ~a.hit /\ Len(pattern) > 50) =>
                        /\ i < Len(log.tried)
                        /\ log.tried[i + 1].strategy = "Partial50"
                        /\ log.tried[i + 1].hit <=> Occurs(text, SubSeq(pattern, 1, 50))
    /\ (pc = "done" /\ pages = <<PageLong52>> /\ instructions[1].text = Long60) =>
          /\ results[1].success
          /\ Len(results[1].attempts) = 2
          /\ results[1].attempts[1].strategy = "Exact"
          /\ results[1].attempts[2].strategy = "Partial50"
          /\ results[1].attempts[2].index = 1
          /\ Len(results[1].attempts[2].matchedText) = 50

\* C5 witness: the 60-character pattern was searched on a page that holds
\* only its first 52 characters, and Partial50 hit.
C5_Witness ==
    /\ pc = "done"
    /\ pages = <<PageLong52>>
    /\ instructions[1].text = Long60
    /\ ~Occurs(PageLong52, Long60)
    /\ results[1].attempts[2].strategy = "Partial50"
    /\ results[1].attempts[2].hit

\* The pattern and the page text of C6: normalized, then lower-cased unless
\* the instruction is case-sensitive.
ComparedText(instruction, text) ==
    IF instruction.caseSensitive THEN normalizeText(text) ELSE toLowerCase(normalizeText(text))

\* C6: on every page searched, Exact hits exactly when the normalized pattern
\* occurs in the normalized page text, both lower-cased when caseSensitive is
\* false and neither when it is true; the hit is at the leftmost occurrence,
\* it ends the search, and the instruction succeeds on that page.
C6_ExactMatchCaseFolding ==
    /\ \A log \in SearchLogs :
          \A i \in 1..Len(log.tried) :
              LET a == log.tried[i]
                  pattern == ComparedText(log.instruction, log.instruction.text)
                  text == ComparedText(log.instruction, pages[a.page])
              IN  a.strategy = "Exact" =>
                     /\ a.hit <=> Occurs(text, pattern)
                     /\ a.hit => /\ LeftmostAt(text, pattern, a.index)
                                 /\ i = Len(log.tried)
    /\ \A k \in 1..Len(results) :
          LET tried == results[k].attempts
          IN  (Len(tried) > 0 /\ tried[Len(tried)].strategy = "Exact" /\ tried[Len(tried)].hit)
                 => /\ results[k].success
                    /\ results[k].position[1].pageNumber = tried[Len(tried)].page

\* C6 witness: a pattern with a capital letter, not case-sensitive, found by
\* Exact at offset 1 of a page whose text differs from it in case and spacing.
C6_Witness ==
    \E k \in 1..Len(results) :
        /\ ~instructions[k].caseSensitive
        /\ instructions[k].text = <<" ", "A", "\n", " ", "B", "\t">>
        /\ results[k].success
        /\ Len(results[k].attempts) = 1
        /\ results[k].attempts[1].strategy = "Exact"
        /\ results[k].attempts[1].index = 1
        /\ pages[results[k].attempts[1].page] = PageHit

\* C7: every hit, whichever strategy made it, lies inside the normalized page
\* text: 0 <= index and index + Len(matchedText) <= Len(normalized page text).
C7_MatchWithinPageText ==
    \A log \in SearchLogs :
        \A i \in 1..Len(log.tried) :
            LET a == log.tried[i]
            IN  a.hit => /\ 0 <= a.index
                         /\ a.index + Len(a.matchedText) <= Len(PageTextOf(log, i))

\* C7 witness: a Fuzzy hit that ends with the last character of the page
\* text, in a search that is over.
C7_Witness ==
    \E k \in 1..Len(results) :
        LET tried == results[k].attempts
            last == tried[Len(tried)]
        IN  /\ Len(tried) > 0
            /\ last.strategy = "Fuzzy"
            /\ last.hit
            /\ last.index > 0
            /\ last.index + Len(last.matchedText)
                  = Len(normalizeText(FoldCase(instructions[k], pages[last.page])))

RECURSIVE EditDistance(_, _)
\* The Levenshtein distance, by its recursive definition.
EditDistance(a, b) ==
    IF a = <<>> THEN Len(b)
    ELSE IF b = <<>> THEN Len(a)
    ELSE Min3(EditDistance(Tail(a), b) + 1,
              EditDistance(a, Tail(b)) + 1,
              EditDistance(Tail(a), Tail(b)) + (IF Head(a) = Head(b) THEN 0 ELSE 1))

\* The windows of the page text that have the length of the pattern.
Windows(text, pattern) ==
    { SubSeq(text, j + 1, j + Len(pattern)) : j \in 0..(Len(text) - Len(pattern)) }

\* C8: a Fuzzy candidate is a window of the normalized page text whose
\* Levenshtein distance to the pattern is the reported distance and is at most
\* floor(Len(pattern) * tolerance); when every window is farther than that
\* from the pattern, Fuzzy reports no candidate.
C8_FuzzyWithinTolerance ==
    \A log \in SearchLogs :
        \A i \in 1..Len(log.tried) :
            LET a == log.tried[i]
                pattern == PatternOf(log)
                text == PageTextOf(log, i)
                bound == (Len(pattern) * options.matchTolerance) \div 100
            IN  a.strategy = "Fuzzy" =>
                   /\ a.hit => /\ OccursAt(text, a.matchedText, a.index)
                               /\ Len(a.matchedText) = Len(pattern)
                               /\ a.distance = EditDistance(a.matchedText, pattern)
                               /\ a.distance <= bound
                   /\ (\A w \in Windows(text, pattern) : EditDistance(w, pattern) > bound)
                         => ~a.hit

\* C8 witness: a Fuzzy candidate at two edits from a three-letter pattern.
C8_Witness ==
    \E k \in 1..Len(results) :
        \E i \in 1..Len(results[k].attempts) :
            /\ results[k].attempts[i].strategy = "Fuzzy"
            /\ results[k].attempts[i].hit
            /\ results[k].attempts[i].distance = 2
            /\ Len(instructions[k].text) = 3

\* C9: the pattern "importnt findngs" at tolerance 0.2, on a page whose text
\* contains "important findings", yields a Fuzzy candidate of distance at
\* most 3.
C9_MisspelledPatternFound ==
    \A k \in 1..Len(results) :
        LET tried == results[k].attempts
        IN  (instructions[k].text = ImportntFindngs /\ options.matchTolerance = 20)
                => /\ results[k].success
                   /\ tried[Len(tried)].strategy = "Fuzzy"
                   /\ tried[Len(tried)].hit
                   /\ tried[Len(tried)].distance <= 3

\* C10: normalizeText is idempotent: normalizing the normalized pattern or
\* the normalized page text of a search, or the normalized text of an
\* instruction or of a page as given, changes nothing.
C10_NormalizeIdempotent ==
    /\ normalizeText(normalizedSearchText) = normalizedSearchText
    /\ normalizeText(normalizedPageText) = normalizedPageText
    /\ \A k \in 1..Len(instructions) :
          normalizeText(normalizeText(instructions[k].text)) = normalizeText(instructions[k].text)
    /\ \A p \in 1..Len(pages) :
          normalizeText(normalizeText(pages[p])) = normalizeText(pages[p])

\* C10 witness: a search whose pattern lost its outer whitespace, had an inner
\* run of whitespace collapsed or a dash replaced, and is not empty.
C10_Witness ==
    /\ pc = "apply"
    /\ normalizedSearchText # searchText
    /\ Len(normalizedSearchText) = 2
    /\ normalizedSearchText[2] = "-"

----------------------------------------------------------------------------
(* Claims about normalizeText and about the instructions a request may hold. *)

CurlyQuotes == {"U+2018", "U+2019", "U+201C", "U+201D"}

\* C11: normalizeText maps the curly single quotes to the apostrophe and the
\* curly double quotes to the double quote: no normalized text of a search
\* holds a curly quote, and a pattern in straight quotes is found on the page
\* that holds the same words in curly quotes.
C11_CurlyQuotesNormalized ==
    /\ \A i \in 1..Len(normalizedSearchText) : normalizedSearchText[i] \notin CurlyQuotes
    /\ \A i \in 1..Len(normalizedPageText) : normalizedPageText[i] \notin CurlyQuotes
    /\ (pc = "done" /\ pages = <<PageCurlyQuotes>> /\ instructions[1].text = StraightQuotes)
          => results[1].success

\* A text as C12 describes the output of normalizeText: no whitespace at
\* either end, no whitespace but the space, no two spaces in a row, no en
\* dash or em dash.
IsNormalForm(t) ==
    /\ t # <<>> => (~IsWhitespace(t[1]) /\ ~IsWhitespace(t[Len(t)]))
    /\ \A i \in 1..Len(t) : IsWhitespace(t[i]) => t[i] = " "
    /\ \A i \in 1..(Len(t) - 1) : ~(t[i] = " " /\ t[i + 1] = " ")
    /\ \A i \in 1..Len(t) : t[i] \notin {"U+2013", "U+2014"}

\* The characters of t that are not whitespace, in order.
Visible(t) == SelectSeq(t, LAMBDA c : ~IsWhitespace(c))

RECURSIVE Widen(_)
\* t with every whitespace character replaced by a tab and a carriage return.
Widen(t) ==
    IF t = <<>> THEN <<>>
    ELSE (IF IsWhitespace(Head(t)) THEN <<"\t", "\r">> ELSE <<Head(t)>>) \o Widen(Tail(t))

\* t in another whitespace layout: wider runs, and whitespace around it.
Relayout(t) == <<"\n", " ">> \o Widen(t) \o <<"\t">>

\* What C12 says of the text t and its normalization.
NormalizesWell(t) ==
    /\ IsNormalForm(normalizeText(t))
    /\ Visible(normalizeText(t))
          = [i \in 1..Len(Visible(t)) |->
                IF Visible(t)[i] \in {"U+2013", "U+2014"} THEN "-" ELSE Visible(t)[i]]
    /\ normalizeText(Relayout(t)) = normalizeText(t)

\* C12: the output of normalizeText has no leading or trailing whitespace, no
\* whitespace but single spaces and no en dash or em dash, it keeps the other
\* characters in order with each dash replaced by '-', and a text in another
\* whitespace layout normalizes to the same string: this holds of the
\* normalized texts of a search and of every instruction text and page text.
C12_NormalizedForm ==
    /\ IsNormalForm(normalizedSearchText)
    /\ IsNormalForm(normalizedPageText)
    /\ \A k \in 1..Len(instructions) : NormalizesWell(instructions[k].text)
    /\ \A p \in 1..Len(pages) : NormalizesWell(pages[p])

\* C12 witness: a search on the page with a newline, a space and an em dash,
\* for a pattern of a letter between two whitespace characters.
C12_Witness ==
    /\ pc = "apply"
    /\ normalizedPageText = <<"a", " ", "-", "a">>
    /\ Len(searchText) = 3
    /\ IsWhitespace(searchText[1])
    /\ IsWhitespace(searchText[3])
    /\ normalizedSearchText = <<"a">>

\* C13: a comment instruction whose comment is missing or empty is rejected:
\* its result is a failure carrying an error, and no callout is drawn with
\* the default text in its place.
C13_EmptyCommentRejected ==
    /\ \A k \in 1..Len(results) :
          (instructions[k].type = "comment"
              /\ (instructions[k].comment = None \/ instructions[k].comment[1] = <<>>))
              => /\ ~results[k].success
                 /\ results[k].error # ""
    /\ \A i \in 1..Len(drawn) :
          drawn[i].type = "comment" => drawn[i].comment \notin {Some(<<>>), Some(DefaultComment)}

----------------------------------------------------------------------------
(* Claims about the page restriction and about patterns that cannot match.  *)

\* The instruction restricts the search to a page the document has.
RestrictedInRange(instruction) ==
    /\ instruction.pageNumber # None
    /\ instruction.pageNumber[1] >= 1
    /\ instruction.pageNumber[1] <= Len(pages)

\* C14: an instruction whose page restriction lies outside 1..totalPages
\* (zero, or above the page count) gets a failure result and no strategy
\* produced a candidate for it on any page.
C14_OutOfRangePageRejected ==
    \A k \in 1..Len(results) :
        (instructions[k].pageNumber # None /\ ~RestrictedInRange(instructions[k]))
            => /\ ~results[k].success
               /\ ~HasCandidate(results[k].attempts)

\* C15: under a page restriction p with 1 <= p <= totalPages only page p is
\* examined: every attempt of the search is on page p, a successful result
\* reports page p, and the instruction fails when no strategy can match the
\* pattern on page p, wherever else it could be matched.
C15_OnlyRestrictedPageExamined ==
    /\ \A log \in SearchLogs :
          RestrictedInRange(log.instruction) =>
              \A i \in 1..Len(log.tried) : log.tried[i].page = log.instruction.pageNumber[1]
    /\ \A k \in 1..Len(results) :
          RestrictedInRange(instructions[k]) =>
              /\ Len(results[k].attempts) > 0
              /\ results[k].success =>
                    results[k].position[1].pageNumber = instructions[k].pageNumber[1]
              /\ ~HasCandidate(ExactStep(PageContext(instructions[k],
                                                     instructions[k].pageNumber[1])))
                    => ~results[k].success

\* C15 witness: an instruction restricted to page 2 failed after a search of
\* page 2, although its pattern is matched on page 1.
C15_Witness ==
    \E k \in 1..Len(results) :
        /\ instructions[k].pageNumber = Some(2)
        /\ Len(pages) >= 2
        /\ HasCandidate(ExactStep(PageContext(instructions[k], 1)))
        /\ Len(results[k].attempts) > 0
        /\ ~results[k].success

\* C16: an instruction whose text is empty, or normalizes to the empty
\* string, yields the failure "Text not found in document" and is never
\* reported as successful.
C16_EmptyPatternNotFound ==
    \A k \in 1..Len(results) :
        normalizeText(instructions[k].text) = <<>>
            => /\ ~results[k].success
               /\ results[k].error = "Text not found in document"

\* The normalized pattern of the instruction is longer than the normalized
\* text of every page of the document.
LongerThanEveryPage(instruction) ==
    \A p \in 1..Len(pages) :
        Len(normalizeText(FoldCase(instruction, instruction.text)))
            > Len(normalizeText(FoldCase(instruction, pages[p])))

\* C17 as stated: an instruction whose normalized pattern is longer than the
\* normalized text of every page yields NotFound, and no strategy reports a
\* candidate for it.
C17_TooLongPatternNotFound ==
    \A k \in 1..Len(results) :
        LongerThanEveryPage(instructions[k])
            => /\ ~results[k].success
               /\ ~HasCandidate(results[k].attempts)

\* C17 amended: for a normalized pattern longer than the normalized text of
\* every page, Exact, Fuzzy and RawFallback never report a candidate; a
\* candidate can only come from Partial50 or Partial30, on a page that holds
\* the first 50 (30) characters of the pattern, and the result is the failure
\* "Text not found in document" exactly when neither of them hit.
C17_TooLongPatternOnlyPartial ==
    /\ \A log \in SearchLogs :
          LongerThanEveryPage(log.instruction) =>
              \A i \in 1..Len(log.tried) :
                  LET a == log.tried[i]
                  IN  a.hit =>
                         /\ a.strategy \in {"Partial50", "Partial30"}
                         /\ Occurs(PageTextOf(log, i), a.matchedText)
                         /\ Len(a.matchedText) = (IF a.strategy = "Partial50" THEN 50 ELSE 30)
                         /\ Len(a.matchedText) < Len(PatternOf(log))
    /\ \A k \in 1..Len(results) :
          LongerThanEveryPage(instructions[k]) =>
              (~results[k].success /\ results[k].error = "Text not found in document")
                  <=> ~HasCandidate(results[k].attempts)

\* C17 witness: the 40-character pattern on a one-page document of 38
\* characters, found by Partial30.
C17_Witness ==
    /\ pc = "done"
    /\ pages = <<PageLong35>>
    /\ instructions[1].text = Long40
    /\ LongerThanEveryPage(instructions[1])
    /\ results[1].success
    /\ results[1].attempts[Len(results[1].attempts)].strategy = "Partial30"

----------------------------------------------------------------------------
(* Claims about the options and about what a result reports.                *)

\* C18: under the default options fuzzy matching uses the tolerance 0.15: a
\* window qualifies when its distance to the pattern is at most
\* floor(0.15 * Len(pattern)), so Fuzzy reports a candidate whenever the page
\* text has such a window.
C18_DefaultToleranceFifteenPercent ==
    options = DefaultOptions =>
        \A log \in SearchLogs :
            \A i \in 1..Len(log.tried) :
                LET a == log.tried[i]
                    pattern == PatternOf(log)
                IN  (a.strategy = "Fuzzy"
                        /\ \E w \in Windows(PageTextOf(log, i), pattern) :
                              levenshteinDistance(w, pattern) <= (15 * Len(pattern)) \div 100)
                        => a.hit

\* C19: the matchedText of a successful result is the text that was matched
\* on the page: the matched text of the hit that ended the search (the
\* normalized pattern for Exact, its 50- or 30-character prefix for the
\* partial strategies, the window for Fuzzy), which occurs in the normalized
\* text of the page reported.
C19_MatchedTextIsMatchedSubstring ==
    \A k \in 1..Len(results) :
        LET tried == results[k].attempts
            pageText == normalizeText(FoldCase(instructions[k],
                                               pages[results[k].position[1].pageNumber]))
        IN  results[k].success
                => /\ results[k].matchedText = Some(tried[Len(tried)].matchedText)
                   /\ Occurs(pageText, results[k].matchedText[1])

\* C20: when skipNotFound is false every failed instruction contributes one
\* message to the warnings, whatever logNotFound is, so the response carries
\* a non-empty warnings list whenever an instruction failed; when skipNotFound
\* is true the response carries no warnings.
C20_WarningsFollowSkipNotFound ==
    pc = "done" =>
        LET failed == {k \in 1..Len(results) : ~results[k].success}
        IN  /\ ~options.skipNotFound =>
                  /\ Len(warnings) = Cardinality(failed)
                  /\ failed # {} => /\ response[1].warnings # None
                                    /\ Len(response[1].warnings[1]) = Cardinality(failed)
            /\ options.skipNotFound => response[1].warnings = None


----------------------------------------------------------------------------
(* C21: partial success.                                                    *)

\* C21: annotatePDF reports success exactly when at least one instruction
\* succeeded, and then the route answers 200 with the annotated document as
\* application/pdf, whether or not other instructions failed.
C21_PartialSuccessSendsDocument ==
    pc = "done" =>
        LET succeeded == {k \in 1..Len(results) : results[k].success}
        IN  /\ response # None /\ httpResponse # None
            /\ response[1].success <=> succeeded # {}
            /\ succeeded # {} =>
                  /\ httpResponse[1].status = 200
                  /\ httpResponse[1].contentType = "application/pdf"
                  /\ httpResponse[1].pdf = Some(drawn)
                  /\ Len(drawn) = Cardinality(succeeded)
            /\ succeeded = {} => httpResponse[1].status = 500 /\ httpResponse[1].pdf = None

C21_Witness ==
    /\ pc = "done"
    /\ \E k \in 1..Len(results) : results[k].success
    /\ \E k \in 1..Len(results) : ~results[k].success
    /\ httpResponse # None
    /\ httpResponse[1].status = 200
    /\ httpResponse[1].pdf = Some(drawn)


----------------------------------------------------------------------------
(* Claims about the geometry of what is drawn.                              *)

\* C23: the vertical position reported for a match stays within the page: it
\* is never negative and never above the height of the page it is on.
C23_VerticalPositionWithinPage ==
    \A k \in 1..Len(results) :
        results[k].success =>
            LET position == results[k].position[1]
            IN  /\ position.y >= 0
                /\ position.y <= pageSizes[position.pageNumber].height

\* The rectangle the specification gives a highlight at a position.
HighlightOf(position) ==
    [shape |-> "rectangle",
     x |-> position.x - 2,
     y |-> position.y - 2,
     width |-> position.width + 4,
     height |-> position.height + 4]

\* C24: a highlight draws exactly one rectangle, at (x - 2, y - 2) of the
\* estimated position and of size (width + 4, height + 4), never a
\* substitute value.
C24_HighlightFollowsPosition ==
    \A i \in 1..Len(drawn) :
        drawn[i].type = "highlight" => drawn[i].shapes = <<HighlightOf(drawn[i].position)>>

\* The text lines of a drawn comment callout.
TextLines(shapes) == {k \in 1..Len(shapes) : shapes[k].shape = "text"}

\* C25: every line drawn in a comment callout measures less than 130 points
\* at the font size of the callout, and at most 5 lines are drawn.
C25_CommentLinesFitCallout ==
    \A i \in 1..Len(drawn) :
        drawn[i].type = "comment" =>
            /\ Cardinality(TextLines(drawn[i].shapes)) <= 5
            /\ \A k \in TextLines(drawn[i].shapes) :
                  widthOfTextAtSize(drawn[i].shapes[k].text, 8) < 130 * 1000


----------------------------------------------------------------------------
(* Claims about firstMatchOnly, the Fuzzy scan and the fallback strategies. *)

\* The searched pages whose compared text holds the compared pattern.
PagesHolding(instruction) ==
    {p \in 1..Len(pages) :
        /\ \E i \in 1..Len(PagesToSearch(instruction)) : PagesToSearch(instruction)[i] = p
        /\ Occurs(ComparedText(instruction, pages[p]),
                  ComparedText(instruction, instruction.text))}

\* C22: with firstMatchOnly false an instruction annotates every occurrence
\* of its text on the searched pages: once a request of one instruction has
\* been processed, every searched page that holds the text carries an
\* annotation; with firstMatchOnly true only the first occurrence does.
C22_EveryOccurrenceAnnotated ==
    (pc = "done" /\ Len(instructions) = 1) =>
        LET holding == PagesHolding(instructions[1])
            annotated == {drawn[i].pageNumber : i \in 1..Len(drawn)}
        IN  IF options.firstMatchOnly
            THEN Len(drawn) <= 1
            ELSE holding \subseteq annotated


\* C26: on every page where Fuzzy is attempted it evaluates at most
\* min(Len(page text), Len(pattern) * 100) windows.
C26_FuzzyScanCapped ==
    \A log \in SearchLogs :
        \A i \in 1..Len(log.tried) :
            log.tried[i].strategy = "Fuzzy" =>
                WindowsEvaluated(PageTextOf(log, i), PatternOf(log),
                                 options.matchTolerance)
                    <= Min2(Len(PageTextOf(log, i)), Len(PatternOf(log)) * 100)


\* The offsets of the windows of text that qualify for pattern: within the
\* scan and at an edit distance of at most bound.
QualifyingOffsets(text, pattern, bound) ==
    {j \in 0..(Len(text) - Len(pattern)) :
        EditDistance(SubSeq(text, j + 1, j + Len(pattern)), pattern) <= bound}

DistanceAt(text, pattern, j) == EditDistance(SubSeq(text, j + 1, j + Len(pattern)), pattern)

C29_RawFallbackNeverHits ==
    \A log \in SearchLogs :
        \A i \in 1..Len(log.tried) :
            /\ log.tried[i].strategy = "RawFallback" => ~log.tried[i].hit
            /\ ( /\ log.tried[i].strategy = "Exact"
                 /\ Occurs(FoldCase(log.instruction, pages[log.tried[i].page]),
                           FoldCase(log.instruction, log.instruction.text)) )
               => log.tried[i].hit

\* An Exact hit for a pattern that lies in the page text as extracted and that
\* normalization changes.
C29_Witness ==
    \E log \in SearchLogs :
        \E i \in 1..Len(log.tried) :
            /\ log.tried[i].strategy = "Exact"
            /\ log.tried[i].hit
            /\ Occurs(FoldCase(log.instruction, pages[log.tried[i].page]),
                      FoldCase(log.instruction, log.instruction.text))
            /\ PatternOf(log) # FoldCase(log.instruction, log.instruction.text)
            /\ PatternOf(log) # <<>>
            /\ PageTextOf(log, i) # FoldCase(log.instruction, pages[log.tried[i].page])


\* floor(Len(pattern) * tolerance) = 0, the tolerance in percent.
NoEditAllowed(log) == (Len(PatternOf(log)) * options.matchTolerance) \div 100 = 0

\* The page of the last attempt of a log holds the pattern verbatim, both
\* normalized.
FoundVerbatim(log) ==
    /\ log.tried # <<>>
    /\ Occurs(PageTextOf(log, Len(log.tried)), PatternOf(log))

\* C30 as stated: when floor(Len(pattern) * tolerance) = 0, Fuzzy never hits
\* and an instruction is found only if the normalized pattern occurs verbatim
\* in the normalized page text.
C30_FoundOnlyVerbatim ==
    \A log \in SearchLogs :
        NoEditAllowed(log) =>
            /\ \A i \in 1..Len(log.tried) : log.tried[i].strategy = "Fuzzy" => ~log.tried[i].hit
            /\ HasCandidate(log.tried) => FoundVerbatim(log)

\* C30, amended: when floor(Len(pattern) * tolerance) = 0, Fuzzy never hits;
\* a candidate then comes from Exact or from a partial strategy, and for a
\* pattern of at most 30 characters, to which no partial strategy applies,
\* the instruction is found only if the pattern occurs verbatim.
C30_NoFuzzyHitWithoutEdits ==
    \A log \in SearchLogs :
        NoEditAllowed(log) =>
            /\ \A i \in 1..Len(log.tried) :
                  /\ log.tried[i].strategy = "Fuzzy" => ~log.tried[i].hit
                  /\ log.tried[i].hit =>
                        log.tried[i].strategy \in {"Exact", "Partial50", "Partial30"}
            /\ (HasCandidate(log.tried) /\ Len(PatternOf(log)) <= 30) => FoundVerbatim(log)

\* Fuzzy ran with no edit allowed and missed a window one edit away from the
\* pattern.
C30_Witness ==
    \E log \in SearchLogs :
        \E i \in 1..Len(log.tried) :
            /\ NoEditAllowed(log)
            /\ log.tried[i].strategy = "Fuzzy"
            /\ ~log.tried[i].hit
            /\ \E w \in Windows(PageTextOf(log, i), PatternOf(log)) :
                  EditDistance(w, PatternOf(log)) = 1


----------------------------------------------------------------------------
(* Claims about the client.                                                 *)

\* The condition under which App renders the 'Preview Unavailable' panel.
FallbackShown ==
    /\ annotatedPdfBlob # None
    /\ pdfPages = <<>>
    /\ ~isRenderingPreview
    /\ error = None

\* C28: once a submission that received a document but could not render its
\* preview has completed, the 'Preview Unavailable' panel is shown; and the
\* panel is shown only for the document of the latest submission, never for
\* one that an earlier submission received.
C28_FallbackPanelAfterFailedPreview ==
    /\ ( /\ submitPc = "idle"
         /\ annotatedPdfBlob = Some(submitCount)
         /\ pdfPages = <<>> )
       => FallbackShown
    /\ FallbackShown => annotatedPdfBlob = Some(submitCount)

====
